---------------------------- MODULE Spec2Model ----------------------------
(***************************************************************************)
(* history-shrinker (src/src/main.rs): read a shell history file, detect   *)
(* its format, split it into (timestamp, command) records, redact,         *)
(* deduplicate and exclude the records, and write the survivors ordered by *)
(* timestamp.                                                              *)
(*                                                                         *)
(* Text is modelled character by character: a string is a sequence of      *)
(* one-character strings.  A u32 timestamp is modelled by its canonical    *)
(* decimal digits (what `parse::<u32>` accepts and `{timestamp}` prints)   *)
(* because the values of interest exceed the checker's integer range.      *)
(***************************************************************************)
EXTENDS Integers, Sequences, FiniteSets, TLC

VARIABLES
    contents,          \* the bytes of the history file main() reads
    lines,             \* contents.lines() collected into a Vec
    pc,                \* position of main(): start, bash, zsh, post, done, failed
    is_zsh,            \* verdict of is_zsh_extended
    idx,               \* index of the next raw line the iterator yields
    timestamp,         \* process_bash_history's local `timestamp`
    command,           \* process_bash_history's local `command`
    command_map,       \* BTreeMultiMap<u32, String>: timestamp -> Vec of commands
    commands_seen,     \* HashSet<String>
    big_commands,      \* BTreeMultiMap<usize, String>
    flagged_commands,  \* HashSet<String>
    output,            \* bytes of the output file, NoFile until File::create
    emitted,           \* the (timestamp, command) pairs post_process wrote, in order
    records,           \* every add_command call so far: [ts, text, first, last]
    run,               \* 1 for the first invocation, 2 for the run on its output
    prev_output        \* output file of the first invocation (NoFile in run 1)

vars == <<contents, lines, pc, is_zsh, idx, timestamp, command, command_map,
          commands_seen, big_commands, flagged_commands, output, emitted, records,
          run, prev_output>>

----------------------------------------------------------------------------
(* Characters and generic string helpers                                   *)

Digit == {"0", "1", "2", "3", "4", "5", "6", "7", "8", "9"}

\* char::is_whitespace on the characters the inputs use
Whitespace == {" ", "\t", "\n", "\r"}

NL == "\n"

\* `.` of a pattern: any character except a line feed
Dot == "<any>"

NoFile == "<no file>"

IsDigits(s) == \A k \in 1..Len(s) : s[k] \in Digit

\* the pattern text `pat` (with Dot as a wildcard) matches s starting at i
LitAt(s, i, pat) ==
    /\ i >= 1
    /\ i + Len(pat) - 1 <= Len(s)
    /\ \A k \in 1..Len(pat) :
          IF pat[k] = Dot THEN s[i + k - 1] # NL ELSE s[i + k - 1] = pat[k]

Contains(s, pat) == \E i \in 1..(Len(s) - Len(pat) + 1) : LitAt(s, i, pat)

\* str::ends_with(char)
EndsWith(s, ch) == Len(s) > 0 /\ s[Len(s)] = ch

\* str::trim
TrimStartIdx(s) ==
    IF \A k \in 1..Len(s) : s[k] \in Whitespace THEN Len(s) + 1
    ELSE CHOOSE i \in 1..Len(s) :
            s[i] \notin Whitespace /\ \A k \in 1..(i - 1) : s[k] \in Whitespace

TrimEndIdx(s) ==
    IF \A k \in 1..Len(s) : s[k] \in Whitespace THEN 0
    ELSE CHOOSE i \in 1..Len(s) :
            s[i] \notin Whitespace /\ \A k \in (i + 1)..Len(s) : s[k] \in Whitespace

Trim(s) == SubSeq(s, TrimStartIdx(s), TrimEndIdx(s))

\* length of the maximal run of characters outside `stop` starting at i
RunLen(s, i, stop) ==
    LET stops == {k \in i..Len(s) : s[k] \in stop}
    IN  IF i > Len(s) THEN 0
        ELSE IF stops = {} THEN Len(s) - i + 1
        ELSE (CHOOSE k \in stops : \A o \in stops : k <= o) - i

\* length of the maximal run of digits starting at i
DigitRun(s, i) ==
    LET stops == {k \in i..Len(s) : s[k] \notin Digit}
    IN  IF i > Len(s) THEN 0
        ELSE IF stops = {} THEN Len(s) - i + 1
        ELSE (CHOOSE k \in stops : \A o \in stops : k <= o) - i

\* str::lines(): split at line feeds, drop a carriage return before the line
\* feed, no empty last line after a final line feed
StripCR(l) == IF EndsWith(l, "\r") THEN SubSeq(l, 1, Len(l) - 1) ELSE l

Lines(s) ==
    LET nl == {i \in 1..Len(s) : s[i] = NL}
        n == Cardinality(nl) + (IF Len(s) > 0 /\ s[Len(s)] # NL THEN 1 ELSE 0)
        \* position of the line feed that ends line k (one past the end of s
        \* for a last line without one)
        End(k) == IF k > Cardinality(nl) THEN Len(s) + 1
                  ELSE CHOOSE i \in nl : Cardinality({j \in nl : j <= i}) = k
        Start(k) == IF k = 1 THEN 1 ELSE End(k - 1) + 1
    IN  [k \in 1..n |->
            IF k > Cardinality(nl) THEN SubSeq(s, Start(k), Len(s))
            ELSE StripCR(SubSeq(s, Start(k), End(k) - 1))]

----------------------------------------------------------------------------
(* u32 timestamps as canonical decimal digits                              *)

U32MaxDigits == <<"4", "2", "9", "4", "9", "6", "7", "2", "9", "5">>

DigitVal(c) ==
    CASE c = "0" -> 0 [] c = "1" -> 1 [] c = "2" -> 2 [] c = "3" -> 3
      [] c = "4" -> 4 [] c = "5" -> 5 [] c = "6" -> 6 [] c = "7" -> 7
      [] c = "8" -> 8 [] c = "9" -> 9

\* digits without leading zeros ("0" for zero)
RECURSIVE StripZeros(_)
StripZeros(d) ==
    IF Len(d) > 1 /\ d[1] = "0" THEN StripZeros(Tail(d)) ELSE d

\* a < b for two digit strings of the same length
RECURSIVE LexLess(_, _)
LexLess(a, b) ==
    IF a = <<>> THEN FALSE
    ELSE IF a[1] # b[1] THEN DigitVal(a[1]) < DigitVal(b[1])
    ELSE LexLess(Tail(a), Tail(b))

\* numeric a < b for canonical digit strings
TsLess(a, b) == Len(a) < Len(b) \/ (Len(a) = Len(b) /\ LexLess(a, b))

ParseError == "<parse error>"

\* str::parse::<u32> on a string of digits: the value, or an error when it
\* does not fit 32 bits
ParseU32(d) ==
    LET c == StripZeros(d)
    IN  IF d = <<>> \/ ~IsDigits(d) \/ TsLess(U32MaxDigits, c) THEN ParseError ELSE c

\* 0u32
TsZero == <<"0">>

----------------------------------------------------------------------------
(* The two line patterns                                                   *)

\* BASH_TIMESTAMP_REGEX  ^#[0-9]{8}[0-9]*$
BASH_TIMESTAMP_REGEX(line) ==
    /\ Len(line) >= 9
    /\ line[1] = "#"
    /\ IsDigits(Tail(line))

\* ZSH_LINE_REGEX  ^: ([0-9]{8}[0-9]*):([0-9]*);(.*)$
\* the capture groups of a line, or <<>> when the line does not match
ZshCaptures(line) ==
    LET n1 == DigitRun(line, 3)
        n2 == DigitRun(line, 4 + n1)
        semi == 4 + n1 + n2
    IN  IF /\ LitAt(line, 1, <<":", " ">>)
           /\ n1 >= 8
           /\ LitAt(line, 3 + n1, <<":">>)
           /\ LitAt(line, semi, <<";">>)
           /\ \A k \in (semi + 1)..Len(line) : line[k] # NL
        THEN <<SubSeq(line, 3, 2 + n1),
               SubSeq(line, 4 + n1, 3 + n1 + n2),
               SubSeq(line, semi + 1, Len(line))>>
        ELSE <<>>

ZSH_LINE_REGEX(line) == ZshCaptures(line) # <<>>

----------------------------------------------------------------------------
(* Pattern lists                                                           *)

\* EXCLUDE_PATTERNS, in list order.  kind "prefix" is ^a, "exact" is ^a$,
\* "contains" is a, "pipe" is a.*\| *b
EXCLUDE_PATTERNS ==
    << [kind |-> "prefix", a |-> <<"e", "c", "h", "o", " ">>, b |-> <<>>],
       [kind |-> "prefix", a |-> <<"e", "n", " ">>, b |-> <<>>],
       [kind |-> "prefix", a |-> <<"c", "d", " ">>, b |-> <<>>],
       [kind |-> "exact", a |-> <<"c", "d">>, b |-> <<>>],
       [kind |-> "prefix", a |-> <<"l", "s", " ">>, b |-> <<>>],
       [kind |-> "exact", a |-> <<"l", "s">>, b |-> <<>>],
       [kind |-> "prefix", a |-> <<"l", " ">>, b |-> <<>>],
       [kind |-> "exact", a |-> <<"l">>, b |-> <<>>],
       [kind |-> "prefix", a |-> <<"l", "a", " ">>, b |-> <<>>],
       [kind |-> "exact", a |-> <<"l", "a">>, b |-> <<>>],
       [kind |-> "prefix", a |-> <<"l", "t", " ">>, b |-> <<>>],
       [kind |-> "exact", a |-> <<"l", "t">>, b |-> <<>>],
       [kind |-> "prefix", a |-> <<"v", "i", " ">>, b |-> <<>>],
       [kind |-> "prefix", a |-> <<"m", "d", " ">>, b |-> <<>>],
       [kind |-> "prefix", a |-> <<"r", "d", " ">>, b |-> <<>>],
       [kind |-> "prefix", a |-> <<"m", "v", " ">>, b |-> <<>>],
       [kind |-> "prefix", a |-> <<"r", "m", " ">>, b |-> <<>>],
       [kind |-> "prefix", a |-> <<"c", "p", " ">>, b |-> <<>>],
       [kind |-> "prefix", a |-> <<"i", "j", " ">>, b |-> <<>>],
       [kind |-> "prefix", a |-> <<"r", "r", " ">>, b |-> <<>>],
       [kind |-> "prefix", a |-> <<"s", " ">>, b |-> <<>>],
       [kind |-> "prefix", a |-> <<"t", "y", "p", "e", " ">>, b |-> <<>>],
       [kind |-> "prefix", a |-> <<"s", "k", "8", "s", " ">>, b |-> <<>>],
       [kind |-> "prefix", a |-> <<"h", "i", "s", "t", "o", "r", "y">>, b |-> <<>>],
       [kind |-> "prefix", a |-> <<"f", "e", "x", "p", "r", " ">>, b |-> <<>>],
       [kind |-> "prefix", a |-> <<"g", "i", "t", " ", "a", "d", "d">>, b |-> <<>>],
       [kind |-> "prefix", a |-> <<"g", "i", "t", " ", "p", "u", "l", "l">>, b |-> <<>>],
       [kind |-> "prefix", a |-> <<"g", "p", "u", "l", "l">>, b |-> <<>>],
       [kind |-> "prefix", a |-> <<"g", "s", "t">>, b |-> <<>>],
       [kind |-> "prefix", a |-> <<"g", "i", "t", " ", "s", "t", "a", "t", "u", "s">>, b |-> <<>>],
       [kind |-> "prefix", a |-> <<"g", "i", "t", " ", "c", "h", "e", "c", "k", "o", "u", "t">>, b |-> <<>>],
       [kind |-> "prefix", a |-> <<"g", "i", "t", " ", "m", "v">>, b |-> <<>>],
       [kind |-> "prefix", a |-> <<"g", "i", "t", " ", "r", "m">>, b |-> <<>>],
       [kind |-> "prefix", a |-> <<"g", "i", "t", " ", "d", "i", "f", "f">>, b |-> <<>>],
       [kind |-> "prefix", a |-> <<"g", "i", "t", " ", "c", "h", "e", "c", "k", "o", "u", "t">>, b |-> <<>>],
       [kind |-> "prefix", a |-> <<"8">>, b |-> <<>>],
       [kind |-> "contains", a |-> <<"h", "e", "l", "p">>, b |-> <<>>],
       [kind |-> "pipe", a |-> <<"e", "c", "h", "o">>, b |-> <<"p", "b", "c", "o", "p", "y">>],
       [kind |-> "pipe", a |-> <<"e", "n", " ">>, b |-> <<"p", "b", "c", "o", "p", "y">>],
       [kind |-> "pipe", a |-> <<"e", "c", "h", "o">>, b |-> <<"c", "l", "i", "p", Dot, "e", "x", "e">>],
       [kind |-> "pipe", a |-> <<"e", "n", " ">>, b |-> <<"c", "l", "i", "p", Dot, "e", "x", "e">>],
       [kind |-> "pipe", a |-> <<"e", "c", "h", "o">>, b |-> <<"b", "a", "s", "e", "6", "4">>],
       [kind |-> "pipe", a |-> <<"e", "n", " ">>, b |-> <<"b", "a", "s", "e", "6", "4">>] >>

\* REPLACEMENTS, in list order: the literal `lit`, then an optional space
\* (`opt`), then one character other than `$` (`first`), then the longest run
\* of characters outside `stop`; `rep` is the replacement text
REPLACEMENTS ==
    << [lit |-> <<"A", "u", "t", "h", "o", "r", "i", "z", "a", "t", "i", "o", "n", ":", " ", "B", "e", "a", "r", "e", "r", " ">>,
        opt |-> FALSE, first |-> FALSE, stop |-> {"'", "\""},
        rep |-> <<"A", "u", "t", "h", "o", "r", "i", "z", "a", "t", "i", "o", "n", ":", " ", "B", "e", "a", "r", "e", "r", " ", "x", "x", "x">>],
       [lit |-> <<"p", "a", "s", "s", "w", "o", "r", "d", "=", "\"">>,
        opt |-> FALSE, first |-> TRUE, stop |-> {" "},
        rep |-> <<"p", "a", "s", "s", "w", "o", "r", "d", "=", "X", "X", "X">>],
       [lit |-> <<"p", "a", "s", "s", "w", "o", "r", "d", "=">>,
        opt |-> FALSE, first |-> TRUE, stop |-> {" "},
        rep |-> <<"p", "a", "s", "s", "w", "o", "r", "d", "=", "X", "X", "X">>],
       [lit |-> <<"p", "a", "s", "s", "w", "o", "r", "d", ":">>,
        opt |-> TRUE, first |-> FALSE, stop |-> {" "},
        rep |-> <<"p", "a", "s", "s", "w", "o", "r", "d", ":", " ", "X", "X", "X">>] >>

\* PATTERNS_TO_FLAG, in list order (each a plain literal)
PATTERNS_TO_FLAG ==
    << <<"p", "a", "s", "s", "w", "o", "r", "d">>,
       <<"s", "s", "h">>,
       <<"s", "e", "c", "r", "e", "t">>,
       <<"b", "a", "s", "e", "6", "4">>,
       <<"j", "a", "s", "y", "p", "t">> >>

\* Regex::is_match for an exclusion pattern.  ^ and $ are the start and the
\* end of the whole text (no multi-line mode)
ExcludeMatch(re, s) ==
    CASE re.kind = "prefix" -> LitAt(s, 1, re.a)
      [] re.kind = "exact" -> s = re.a
      [] re.kind = "contains" -> Contains(s, re.a)
      [] re.kind = "pipe" ->
            \E i \in 1..Len(s) :
               /\ LitAt(s, i, re.a)
               /\ \E j \in (i + Len(re.a))..Len(s) :
                     /\ s[j] = "|"
                     /\ \A k \in (i + Len(re.a))..(j - 1) : s[k] # NL
                     /\ \E m \in 0..(Len(s) - j) :
                           /\ \A k \in (j + 1)..(j + m) : s[k] = " "
                           /\ LitAt(s, j + m + 1, re.b)

\* a replacement rule matches s starting at i
RuleAt(rule, s, i) ==
    /\ LitAt(s, i, rule.lit)
    /\ rule.first =>
          /\ i + Len(rule.lit) <= Len(s)
          /\ s[i + Len(rule.lit)] # "$"

\* Regex::is_match for a replacement rule
RuleMatch(rule, s) == \E i \in 1..Len(s) : RuleAt(rule, s, i)

\* start of the leftmost match
RuleStart(rule, s) ==
    CHOOSE i \in 1..Len(s) :
        RuleAt(rule, s, i) /\ \A k \in 1..(i - 1) : ~RuleAt(rule, s, k)

\* index of the first character after the (greedy) match that starts at i
RuleEnd(rule, s, i) ==
    LET p0 == i + Len(rule.lit)
        p1 == IF rule.opt /\ p0 <= Len(s) /\ s[p0] = " " THEN p0 + 1 ELSE p0
        p2 == IF rule.first THEN p1 + 1 ELSE p1
    IN  p2 + RunLen(s, p2, rule.stop)

\* Regex::replace: the leftmost match alone is replaced
RegexReplace(rule, s) ==
    LET i == RuleStart(rule, s)
        e == RuleEnd(rule, s, i)
    IN  SubSeq(s, 1, i - 1) \o rule.rep \o SubSeq(s, e, Len(s))

----------------------------------------------------------------------------
(* filter_command, should_exclude_cmd, flag_command, add_command           *)

RECURSIVE FilterFrom(_, _)
FilterFrom(s, r) ==
    IF r > Len(REPLACEMENTS) THEN s
    ELSE IF RuleMatch(REPLACEMENTS[r], s)
         THEN FilterFrom(RegexReplace(REPLACEMENTS[r], s), r + 1)
         ELSE FilterFrom(s, r + 1)

filter_command(cmd) == FilterFrom(cmd, 1)

should_exclude_cmd(cmd) ==
    \E p \in 1..Len(EXCLUDE_PATTERNS) : ExcludeMatch(EXCLUDE_PATTERNS[p], cmd)

\* format!("Flagged for '{regex}': {command}")
FlagText(pat, cmd) ==
    <<"F", "l", "a", "g", "g", "e", "d", " ", "f", "o", "r", " ", "'">> \o pat
    \o <<"'", ":", " ">> \o cmd

\* the collections add_command writes, flag_command's part
flag_command(cmd, st) ==
    IF \E p \in 1..Len(PATTERNS_TO_FLAG) : Contains(cmd, PATTERNS_TO_FLAG[p])
    THEN LET p == CHOOSE q \in 1..Len(PATTERNS_TO_FLAG) :
                     /\ Contains(cmd, PATTERNS_TO_FLAG[q])
                     /\ \A k \in 1..(q - 1) : ~Contains(cmd, PATTERNS_TO_FLAG[k])
         IN  [st EXCEPT !.flagged_commands = @ \cup {FlagText(PATTERNS_TO_FLAG[p], cmd)}]
    ELSE st

\* BTreeMultiMap::insert putting v in front of the Vec stored under k
MapInsertFront(m, k, v) ==
    IF k \in DOMAIN m THEN [m EXCEPT ![k] = <<v>> \o @] ELSE m @@ (k :> <<v>>)

\* BTreeMultiMap::insert: append v to the Vec stored under k
MapInsert(m, k, v) ==
    IF k \in DOMAIN m THEN [m EXCEPT ![k] = Append(@, v)] ELSE m @@ (k :> <<v>>)

\* size threshold of big_commands
BigLen == 200

\* add_command without the insert into commands_seen
add_command_no_seen(ts, cmd, st) ==
    IF cmd # <<>>
    THEN LET filtered_command == filter_command(cmd)
         IN  IF filtered_command \notin st.commands_seen
                /\ ~should_exclude_cmd(filtered_command)
             THEN [flag_command(filtered_command, st) EXCEPT
                      !.command_map = MapInsert(@, ts, filtered_command)]
             ELSE st
    ELSE st

\* add_command without the exclusion test
add_command_no_exclude(ts, cmd, st) ==
    IF cmd # <<>>
    THEN LET filtered_command == filter_command(cmd)
         IN  IF filtered_command \notin st.commands_seen
             THEN [flag_command(filtered_command,
                                [st EXCEPT !.commands_seen = @ \cup {filtered_command}])
                      EXCEPT !.command_map = MapInsert(@, ts, filtered_command)]
             ELSE st
    ELSE st

\* add_command treating a flagged command as an excluded one
add_command_drop_flagged(ts, cmd, st) ==
    IF cmd # <<>>
    THEN LET filtered_command == filter_command(cmd)
             s1 == [st EXCEPT !.commands_seen = @ \cup {filtered_command}]
             s2 == flag_command(filtered_command, s1)
         IN  IF filtered_command \notin st.commands_seen
                /\ ~should_exclude_cmd(filtered_command)
             THEN IF s2.flagged_commands # s1.flagged_commands THEN s2
                  ELSE [s2 EXCEPT !.command_map = MapInsert(@, ts, filtered_command)]
             ELSE st
    ELSE st

\* add_command inserting into commands_seen before the exclusion test
add_command_seen_excluded(ts, cmd, st) ==
    IF cmd # <<>>
    THEN LET filtered_command == filter_command(cmd)
             s1 == [st EXCEPT !.commands_seen = @ \cup {filtered_command}]
         IN  IF filtered_command \notin st.commands_seen
             THEN IF ~should_exclude_cmd(filtered_command)
                  THEN [flag_command(filtered_command, s1) EXCEPT
                           !.command_map = MapInsert(@, ts, filtered_command)]
                  ELSE s1
             ELSE st
    ELSE st

\* add_command without the test for an empty command
add_command_store_empty(ts, cmd, st) ==
    LET filtered_command == filter_command(cmd)
    IN  IF filtered_command \notin st.commands_seen
           /\ ~should_exclude_cmd(filtered_command)
        THEN LET s1 == [st EXCEPT !.commands_seen = @ \cup {filtered_command}]
                 s2 == flag_command(filtered_command, s1)
             IN  [s2 EXCEPT !.command_map = MapInsert(@, ts, filtered_command)]
        ELSE st

\* add_command on the collections st; the result is the collections after
add_command(ts, cmd, st) ==
    IF cmd # <<>>
    THEN LET filtered_command == filter_command(cmd)
         IN  IF filtered_command \notin st.commands_seen
                /\ ~should_exclude_cmd(filtered_command)
             THEN LET s1 == [st EXCEPT !.commands_seen = @ \cup {filtered_command}]
                      s2 == flag_command(filtered_command, s1)
                      s3 == IF Len(filtered_command) >= BigLen
                            THEN [s2 EXCEPT !.big_commands =
                                     MapInsert(@, Len(filtered_command), filtered_command)]
                            ELSE s2
                  IN  [s3 EXCEPT !.command_map = MapInsert(@, ts, filtered_command)]
             ELSE st
    ELSE st

----------------------------------------------------------------------------
(* is_zsh_extended and the emitter                                         *)

\* is_zsh_extended deciding the format from the first line alone
is_zsh_first_line(ls) == ls # <<>> /\ ZSH_LINE_REGEX(ls[1])

is_zsh_extended(ls) == \E i \in 1..Len(ls) : ZSH_LINE_REGEX(ls[i])

\* the marker post_process writes before a command
Marker(ts, zsh) ==
    IF zsh THEN <<":", " ">> \o ts \o <<":", "0", ";">>
    ELSE <<"#">> \o ts \o <<NL>>

\* smallest key of a non-empty set of timestamps
MinKey(keys) == CHOOSE k \in keys : \A o \in keys : ~TsLess(o, k)

\* the commands stored under one timestamp, in Vec order
RECURSIVE EmitVec(_, _)
EmitVec(ts, cmds) ==
    IF cmds = <<>> THEN <<>>
    ELSE <<[ts |-> ts, text |-> Head(cmds)]>> \o EmitVec(ts, Tail(cmds))

\* `for (timestamp, commands) in command_map`: keys in ascending order
RECURSIVE EmitKeys(_, _)
EmitKeys(m, keys) ==
    IF keys = {} THEN <<>>
    ELSE LET k == MinKey(keys)
         IN  EmitVec(k, m[k]) \o EmitKeys(m, keys \ {k})

\* the (timestamp, command) pairs in the order post_process visits them
EmitOrder(m) == EmitKeys(m, DOMAIN m)

\* the bytes the write_all calls of post_process produce for the pairs es
RECURSIVE WriteAll(_, _)
WriteAll(es, zsh) ==
    IF es = <<>> THEN <<>>
    ELSE Marker(Head(es).ts, zsh) \o Head(es).text \o WriteAll(Tail(es), zsh)

----------------------------------------------------------------------------
(* Input files                                                             *)

\* number of history entries in an input file
MaxEntries == 3

\* a line that makes a command of exactly BigLen characters
LongLine == [i \in 1..(BigLen - 1) |-> "a"]

\* entries of the input files: each is a few raw lines
Entries ==
    << <<<<"t", "o", "p">>>>,
       <<LongLine>>,
       <<<<"#", "1", "0", "0", "0", "0", "1", "0", "0">>>>,
       <<<<"#", "1", "0", "0", "0", "0", "2", "0", "0">>, <<"m", "a", "k", "e">>>>,
       <<<<"#", "1", "0", "0", "0", "0", "1", "0", "0">>, <<"t", "o", "p">>>>,
       <<<<"#", "1", "0", "0", "0", "0", "1", "0", "0">>, <<"s", "s", "h", " ", "h">>>>,
       <<<<"c", "d", " ", "x", "\\">>>>,
       <<<<":", " ", "1", "0", "0", "0", "0", "2", "0", "0", ":", "0", ";", "m", "a", "k", "e">>>>,
       <<<<":", " ", "1", "0", "0", "0", "0", "1", "0", "0", ":", "0", ";", "t", "o", "p">>>>,
       <<<<":", " ", "1", "0", "0", "0", "0", "1", "0", "0", ":", "0", ";", "s", "s", "h", " ", "h", "\\">>>>,
       <<<<":", " ", "1", "0", "0", "0", "0", "1", "0", "0", ":", "7", ";", " ", "m", "a", "k", "e", " ">>>>,
       <<<<":", " ", "1", "0", "0", "0", "0", "1", "0", "0", ":", "0", ";", "c", "d", " ", "x">>>>,
       <<<<":", " ", "4", "2", "9", "4", "9", "6", "7", "2", "9", "6", ":", "0", ";", "t", "o", "p">>>> >>

\* entries that carry secrets
RedactEntries ==
    << <<<<"#", "1", "0", "0", "0", "0", "1", "0", "0">>>>,
       <<<<"#", "1", "0", "0", "0", "0", "1", "0", "0">>, <<"k", " ", "p", "a", "s", "s", "w", "o", "r", "d", "=", "a", " ", "p", "a", "s", "s", "w", "o", "r", "d", "=", "a">>>>,
       <<<<"#", "1", "0", "0", "0", "0", "2", "0", "0">>, <<"k", " ", "p", "a", "s", "s", "w", "o", "r", "d", "=", "b", " ", "p", "a", "s", "s", "w", "o", "r", "d", "=", "a">>>>,
       <<<<"#", "1", "0", "0", "0", "0", "2", "0", "0">>, <<"k", " ", "p", "a", "s", "s", "w", "o", "r", "d", "=", "a", " ", "p", "a", "s", "s", "w", "o", "r", "d", "=", "b">>>>,
       <<<<"#", "1", "0", "0", "0", "0", "1", "0", "0">>, <<"p", "a", "s", "s", "w", "o", "r", "d", "=", "h", "e", "l", "p">>>>,
       <<<<"#", "1", "0", "0", "0", "0", "1", "0", "0">>, <<"k", " ", "p", "a", "s", "s", "w", "o", "r", "d", "=", "$", "a">>>>,
       <<<<"#", "1", "0", "0", "0", "0", "2", "0", "0">>, <<"k", " ", "p", "a", "s", "s", "w", "o", "r", "d", "=", "$", "b">>>>,
       <<<<":", " ", "1", "0", "0", "0", "0", "1", "0", "0", ":", "0", ";", "k", " ", "p", "a", "s", "s", "w", "o", "r", "d", "=", "a", " ", "z">>>>,
       <<<<":", " ", "1", "0", "0", "0", "0", "2", "0", "0", ":", "0", ";", "k", " ", "p", "a", "s", "s", "w", "o", "r", "d", "=", "b", " ", "z">>>>,
       <<<<":", " ", "1", "0", "0", "0", "0", "2", "0", "0", ":", "0", ";", "k", " ", "p", "a", "s", "s", "w", "o", "r", "d", ":", " ", "a">>>>,
       <<<<"#", "1", "0", "0", "0", "0", "2", "0", "0">>, <<"c", "d", " ", "p", "a", "s", "s", "w", "o", "r", "d", "=", "a">>>> >>

\* entries for the boundaries of the two formats
BoundaryEntries ==
    << <<<<"#", "1", "0", "0">>, <<"c", "m", "d", "1">>>>,
       <<<<"#", "2", "0", "0">>, <<"c", "m", "d", "2">>>>,
       <<<<"#", "0", "0", "0", "0", "0", "1", "0", "0">>, <<"c", "m", "d", "1">>>>,
       <<<<"#", "0", "0", "0", "0", "0", "2", "0", "0">>, <<"c", "m", "d", "2">>>>,
       <<<<"#", "1", "0", "0", "0", "0", "1", "0", "0">>>>,
       <<<<"c", "m", "d", "1">>>>,
       <<<<":", " ", "1", "0", "0", "0", ":", "0", ";", "e", "c", "h", "o", " ", "\\">>>>,
       <<<<"w", "o", "r", "l", "d">>>>,
       <<<<":", " ", "0", "0", "0", "0", "1", "0", "0", "0", ":", "0", ";", "e", "c", "h", "o", " ", "\\">>>>,
       <<<<":", " ", "1", "0", "0", "0", "0", "1", "0", "0", ":", "0", ";", "c", "m", "d", "2">>>>,
       <<<<"#", "4", "2", "9", "4", "9", "6", "7", "2", "9", "5">>, <<"c", "m", "d", "2">>>>,
       <<<<"#", "4", "2", "9", "4", "9", "6", "7", "2", "9", "6">>, <<"c", "m", "d", "1">>>>,
       <<<<":", " ", "4", "2", "9", "4", "9", "6", "7", "2", "9", "6", ":", "0", ";", "c", "m", "d", "1">>>>,
       <<<<":", " ", "1", "0", "0", "0", "0", "1", "0", "0", ":", "0", ";", "c", "m", "d", "1", " ", "\\">>, <<"w", "o", "r", "l", "d", " ">>>> >>

\* the lines of an entry, each ended by a line feed
RECURSIVE JoinLines(_)
JoinLines(ls) ==
    IF ls = <<>> THEN <<>> ELSE Head(ls) \o <<NL>> \o JoinLines(Tail(ls))

RECURSIVE FileOf(_, _)
FileOf(E, picks) ==
    IF picks = <<>> THEN <<>>
    ELSE JoinLines(E[Head(picks)]) \o FileOf(E, Tail(picks))

\* the input files built from at most MaxEntries entries of E
Files(E) ==
    {FileOf(E, picks) : picks \in UNION {[1..k -> 1..Len(E)] : k \in 0..MaxEntries}}

----------------------------------------------------------------------------
(* The program                                                             *)

NoCollections ==
    [command_map |-> <<>>, commands_seen |-> {}, big_commands |-> <<>>,
     flagged_commands |-> {}]

Collections ==
    [command_map |-> command_map, commands_seen |-> commands_seen,
     big_commands |-> big_commands, flagged_commands |-> flagged_commands]

\* the collections become st
SetCollections(st) ==
    /\ command_map' = st.command_map
    /\ commands_seen' = st.commands_seen
    /\ big_commands' = st.big_commands
    /\ flagged_commands' = st.flagged_commands

\* the state main() starts from, reading the file `c`
Fresh(c) ==
    /\ contents = c
    /\ lines = <<>>
    /\ pc = "start"
    /\ is_zsh = FALSE
    /\ idx = 1
    /\ timestamp = TsZero
    /\ command = <<>>
    /\ command_map = <<>>
    /\ commands_seen = {}
    /\ big_commands = <<>>
    /\ flagged_commands = {}
    /\ output = NoFile
    /\ emitted = <<>>
    /\ records = <<>>

Init ==
    /\ \E c \in Files(Entries) : Fresh(c)
    /\ run = 1
    /\ prev_output = NoFile

InitBoundary ==
    /\ \E c \in Files(BoundaryEntries) : Fresh(c)
    /\ run = 1
    /\ prev_output = NoFile

InitRedact ==
    /\ \E c \in Files(RedactEntries) : Fresh(c)
    /\ run = 1
    /\ prev_output = NoFile

\* main: slurp the file, split it into lines, decide the format
Start ==
    /\ pc = "start"
    /\ lines' = Lines(contents)
    /\ is_zsh' = is_zsh_extended(lines')
    /\ pc' = IF is_zsh' THEN "zsh" ELSE "bash"
    /\ UNCHANGED <<contents, idx, timestamp, command, command_map, commands_seen,
                   big_commands, flagged_commands, output, emitted, records, run, prev_output>>

\* index of the line that opened the record being collected in plain mode
\* (0 before the first marker)
BashFirst == IF records = <<>> THEN 0 ELSE records[Len(records)].last + 1

\* parse_timestamp: the timestamp of a marker line
parse_timestamp(line) == ParseU32(Tail(line))

\* process_bash_history taking a marker whose digits overflow as a command line
BashStepIgnoreOverflow ==
    /\ pc = "bash"
    /\ idx <= Len(lines)
    /\ LET line == lines[idx]
       IN  IF BASH_TIMESTAMP_REGEX(line) /\ ParseU32(Tail(line)) # ParseError
           THEN /\ SetCollections(add_command(timestamp, command, Collections))
                /\ records' = Append(records,
                                 [ts |-> timestamp, text |-> command,
                                  first |-> BashFirst, last |-> idx - 1])
                /\ timestamp' = ParseU32(Tail(line))
                /\ command' = <<>>
                /\ idx' = idx + 1
                /\ pc' = pc
           ELSE /\ command' = command \o line \o <<NL>>
                /\ idx' = idx + 1
                /\ UNCHANGED <<pc, timestamp, command_map, commands_seen, big_commands,
                               flagged_commands, records>>
    /\ UNCHANGED <<contents, lines, is_zsh, output, emitted, run, prev_output>>

\* process_bash_history handing the lines in front of the first marker to
\* add_command under that marker's timestamp
BashStepPreToFirst ==
    /\ pc = "bash"
    /\ idx <= Len(lines)
    /\ LET line == lines[idx]
       IN  IF BASH_TIMESTAMP_REGEX(line)
           THEN IF ParseU32(Tail(line)) = ParseError
                THEN /\ pc' = "failed"
                     /\ UNCHANGED <<idx, timestamp, command, command_map, commands_seen,
                                    big_commands, flagged_commands, records>>
                ELSE LET ts == IF records = <<>> THEN ParseU32(Tail(line)) ELSE timestamp
                     IN  /\ SetCollections(add_command(ts, command, Collections))
                         /\ records' = Append(records,
                                          [ts |-> ts, text |-> command,
                                           first |-> BashFirst, last |-> idx - 1])
                         /\ timestamp' = ParseU32(Tail(line))
                         /\ command' = <<>>
                         /\ idx' = idx + 1
                         /\ pc' = pc
           ELSE /\ command' = command \o line \o <<NL>>
                /\ idx' = idx + 1
                /\ UNCHANGED <<pc, timestamp, command_map, commands_seen, big_commands,
                               flagged_commands, records>>
    /\ UNCHANGED <<contents, lines, is_zsh, output, emitted, run, prev_output>>

\* process_bash_history: one iteration of the loop over the lines
BashStep ==
    /\ pc = "bash"
    /\ idx <= Len(lines)
    /\ LET line == lines[idx]
       IN  IF BASH_TIMESTAMP_REGEX(line)
           THEN IF parse_timestamp(line) = ParseError
                THEN /\ pc' = "failed"
                     /\ UNCHANGED <<idx, timestamp, command, command_map, commands_seen,
                                    big_commands, flagged_commands, records>>
                ELSE /\ SetCollections(add_command(timestamp, command, Collections))
                     /\ records' = Append(records,
                                      [ts |-> timestamp, text |-> command,
                                       first |-> BashFirst, last |-> idx - 1])
                     /\ timestamp' = parse_timestamp(line)
                     /\ command' = <<>>
                     /\ idx' = idx + 1
                     /\ pc' = pc
           ELSE /\ command' = command \o line \o <<NL>>
                /\ idx' = idx + 1
                /\ UNCHANGED <<pc, timestamp, command_map, commands_seen, big_commands,
                               flagged_commands, records>>
    /\ UNCHANGED <<contents, lines, is_zsh, output, emitted, run, prev_output>>

\* process_bash_history without the add_command after the loop
BashFlushNoAdd ==
    /\ pc = "bash"
    /\ idx > Len(lines)
    /\ pc' = "post"
    /\ UNCHANGED <<contents, lines, is_zsh, idx, timestamp, command, command_map,
                   commands_seen, big_commands, flagged_commands, output, emitted,
                   records, run, prev_output>>

\* process_bash_history: the add_command after the loop
BashFlush ==
    /\ pc = "bash"
    /\ idx > Len(lines)
    /\ SetCollections(add_command(timestamp, command, Collections))
    /\ records' = Append(records,
                     [ts |-> timestamp, text |-> command,
                      first |-> BashFirst, last |-> Len(lines)])
    /\ pc' = "post"
    /\ UNCHANGED <<contents, lines, is_zsh, idx, timestamp, command, output, emitted, run,
                   prev_output>>

\* the inner loop of process_zsh_history as an `if`: one line at most
ContinuationOnce(cmd, ls, j) ==
    IF EndsWith(cmd, "\\") /\ j <= Len(ls)
    THEN [command |-> cmd \o <<NL>> \o ls[j], next |-> j + 1]
    ELSE [command |-> cmd, next |-> j]

\* the inner loop of process_zsh_history: while the command ends with a
\* backslash, take the next raw line; j is the next line the iterator yields
RECURSIVE Continuation(_, _, _)
Continuation(cmd, ls, j) ==
    IF EndsWith(cmd, "\\") /\ j <= Len(ls)
    THEN Continuation(cmd \o <<NL>> \o ls[j], ls, j + 1)
    ELSE [command |-> cmd, next |-> j]

\* process_zsh_history going on with the line after the matching line, the
\* continuation lines not taken from the iterator
ZshStepNoSkip ==
    /\ pc = "zsh"
    /\ idx <= Len(lines)
    /\ LET line == lines[idx]
           captures == ZshCaptures(line)
       IN  IF ZSH_LINE_REGEX(line)
           THEN IF ParseU32(captures[1]) = ParseError
                THEN /\ pc' = "failed"
                     /\ UNCHANGED <<idx, command_map, commands_seen, big_commands,
                                    flagged_commands, records>>
                ELSE LET c == Continuation(Trim(captures[3]), lines, idx + 1)
                     IN  /\ SetCollections(add_command(ParseU32(captures[1]),
                                                       c.command \o <<NL>>, Collections))
                         /\ records' = Append(records,
                                          [ts |-> ParseU32(captures[1]),
                                           text |-> c.command \o <<NL>>,
                                           first |-> idx, last |-> c.next - 1])
                         /\ idx' = idx + 1
                         /\ pc' = pc
           ELSE /\ idx' = idx + 1
                /\ UNCHANGED <<pc, command_map, commands_seen, big_commands,
                               flagged_commands, records>>
    /\ UNCHANGED <<contents, lines, is_zsh, timestamp, command, output, emitted, run, prev_output>>

\* process_zsh_history: one iteration of the outer loop
ZshStep ==
    /\ pc = "zsh"
    /\ idx <= Len(lines)
    /\ LET line == lines[idx]
           captures == ZshCaptures(line)
       IN  IF ZSH_LINE_REGEX(line)
           THEN IF ParseU32(captures[1]) = ParseError
                THEN /\ pc' = "failed"
                     /\ UNCHANGED <<idx, command_map, commands_seen, big_commands,
                                    flagged_commands, records>>
                ELSE LET c == Continuation(Trim(captures[3]), lines, idx + 1)
                     IN  /\ SetCollections(add_command(ParseU32(captures[1]),
                                                       c.command \o <<NL>>, Collections))
                         /\ records' = Append(records,
                                          [ts |-> ParseU32(captures[1]),
                                           text |-> c.command \o <<NL>>,
                                           first |-> idx, last |-> c.next - 1])
                         /\ idx' = c.next
                         /\ pc' = pc
           ELSE /\ idx' = idx + 1
                /\ UNCHANGED <<pc, command_map, commands_seen, big_commands,
                               flagged_commands, records>>
    /\ UNCHANGED <<contents, lines, is_zsh, timestamp, command, output, emitted, run, prev_output>>

\* process_zsh_history: the iterator is exhausted
ZshEnd ==
    /\ pc = "zsh"
    /\ idx > Len(lines)
    /\ pc' = "post"
    /\ UNCHANGED <<contents, lines, is_zsh, idx, timestamp, command, command_map,
                   commands_seen, big_commands, flagged_commands, output, emitted, records, run,
                   prev_output>>

\* post_process: create the output file and write every command
PostProcess ==
    /\ pc = "post"
    /\ emitted' = EmitOrder(command_map)
    /\ output' = WriteAll(emitted', is_zsh)
    /\ pc' = "done"
    /\ UNCHANGED <<contents, lines, is_zsh, idx, timestamp, command, command_map,
                   commands_seen, big_commands, flagged_commands, records, run,
                   prev_output>>

\* the program is started again, on the output file of the first run
Rerun ==
    /\ pc = "done"
    /\ run = 1
    /\ run' = 2
    /\ prev_output' = output
    /\ contents' = output
    /\ lines' = <<>>
    /\ pc' = "start"
    /\ is_zsh' = FALSE
    /\ idx' = 1
    /\ timestamp' = TsZero
    /\ command' = <<>>
    /\ SetCollections(NoCollections)
    /\ output' = NoFile
    /\ emitted' = <<>>
    /\ records' = <<>>

Next == Start \/ BashStep \/ BashFlush \/ ZshStep \/ ZshEnd \/ PostProcess

NextRerun == Next \/ Rerun

Spec == Init /\ [][Next]_vars

SpecBoundary == InitBoundary /\ [][Next]_vars

SpecRedact == InitRedact /\ [][Next]_vars

SpecRerun == Init /\ [][NextRerun]_vars

----------------------------------------------------------------------------
(* Views of the state the claims are stated on                             *)

Range(s) == {s[i] : i \in 1..Len(s)}

\* a record's text as the dedup and exclusion gate compares it
RecText(r) == IF r.text = <<>> THEN <<>> ELSE filter_command(r.text)

\* the add_command calls whose text, after redaction, is c
Occ(c) == {i \in 1..Len(records) : RecText(records[i]) = c}

FirstOcc(c) == CHOOSE i \in Occ(c) : \A k \in Occ(c) : i <= k

\* the places of command_map that hold c
Copies(c) ==
    {<<k, i>> \in UNION {{k} \X (1..Len(command_map[k])) : k \in DOMAIN command_map} :
        command_map[k][i] = c}

\* every record of the file has been handed to add_command
Scanned == pc \in {"post", "done"}

----------------------------------------------------------------------------
(* C1  Idempotence: running the program on the output file of a previous   *)
(* run, in the same format, writes a byte-identical output file.           *)
C1_Idempotent == (run = 2 /\ pc = "done") => output = prev_output

----------------------------------------------------------------------------
(* C2  Dedup correctness, as claimed: every command text that occurs at    *)
(* least twice among the extracted records (compared after redaction) has  *)
(* exactly one copy in command_map once all records are processed, stored  *)
(* under the timestamp of its first occurrence in file order.              *)
C2_DedupEveryText ==
    Scanned =>
        \A c \in {RecText(records[i]) : i \in 1..Len(records)} :
            (Cardinality(Occ(c)) >= 2 /\ c # <<>>) =>
                /\ Cardinality(Copies(c)) = 1
                /\ \E p \in Copies(c) : p[1] = records[FirstOcc(c)].ts

\* C2 as amended: the same for every command text whose redacted form
\* matches no exclusion pattern; a text that does match has no copy.
C2_DedupAccepted ==
    Scanned =>
        \A c \in {RecText(records[i]) : i \in 1..Len(records)} :
            /\ (Cardinality(Occ(c)) >= 2 /\ c # <<>> /\ ~should_exclude_cmd(c)) =>
                  /\ Cardinality(Copies(c)) = 1
                  /\ \E p \in Copies(c) : p[1] = records[FirstOcc(c)].ts
            /\ (Cardinality(Occ(c)) >= 2 /\ c # <<>> /\ should_exclude_cmd(c)) =>
                  Copies(c) = {}

\* a run in which an accepted command occurred twice, at different timestamps
C2_Witness ==
    /\ pc = "done"
    /\ \E i, j \in 1..Len(records) :
          /\ i < j
          /\ records[i].text # <<>>
          /\ RecText(records[i]) = RecText(records[j])
          /\ records[i].ts # records[j].ts
          /\ ~should_exclude_cmd(RecText(records[i]))
          /\ Cardinality(Copies(RecText(records[i]))) = 1

----------------------------------------------------------------------------
(* C3  Exclusion correctness, as claimed: a command that matches an        *)
(* exclusion pattern never reaches the output, unique or not, also when    *)
(* its text stops matching only because redaction rewrote it.              *)
C3_ExcludedRawNeverEmitted ==
    pc = "done" =>
        \A i \in 1..Len(records) :
            /\ records[i].text # <<>>
            /\ \/ should_exclude_cmd(records[i].text)
               \/ should_exclude_cmd(filter_command(records[i].text))
            => \A k \in 1..Len(emitted) :
                  emitted[k].text \notin {records[i].text, filter_command(records[i].text)}

\* C3 as amended: a command whose redacted text matches an exclusion pattern
\* never reaches the output, unique or not, and no emitted text matches an
\* exclusion pattern.
C3_ExcludedNeverEmitted ==
    pc = "done" =>
        /\ \A i \in 1..Len(records) :
              /\ records[i].text # <<>>
              /\ should_exclude_cmd(filter_command(records[i].text))
              => \A k \in 1..Len(emitted) :
                    emitted[k].text \notin
                        {records[i].text, filter_command(records[i].text)}
        /\ \A k \in 1..Len(emitted) : ~should_exclude_cmd(emitted[k].text)

\* a run with an excluded command that redaction rewrote and that occurred
\* twice, next to a command that was written
C3_Witness ==
    /\ pc = "done"
    /\ emitted # <<>>
    /\ \E i, j \in 1..Len(records) :
          /\ i < j
          /\ records[i].text # <<>>
          /\ records[i].text = records[j].text
          /\ filter_command(records[i].text) # records[i].text
          /\ should_exclude_cmd(filter_command(records[i].text))

----------------------------------------------------------------------------
(* C4  Every rule replaces all matches of its pattern: in the text         *)
(* filter_command returns, whatever a rule's pattern still matches is the  *)
(* rule's own replacement text.                                            *)
C4_AllMatchesReplaced ==
    \A i \in 1..Len(records) :
        records[i].text # <<>> =>
            LET f == filter_command(records[i].text)
            IN  \A r \in 1..Len(REPLACEMENTS) : \A p \in 1..Len(f) :
                    RuleAt(REPLACEMENTS[r], f, p) =>
                        SubSeq(f, p, RuleEnd(REPLACEMENTS[r], f, p) - 1)
                            = REPLACEMENTS[r].rep

----------------------------------------------------------------------------
(* C5  Redaction comes before the dedup test: two raw commands that are    *)
(* identical except for the secret values after `password=` leave one      *)
(* record in the output, the first, and commands_seen never holds a raw    *)
(* text with a secret in it.                                               *)

\* a secret value: what follows `password=`, up to the next blank or line
\* end, unless it starts with `$`
SecretAt(s, i) ==
    /\ LitAt(s, i, REPLACEMENTS[3].lit)
    /\ i + Len(REPLACEMENTS[3].lit) <= Len(s)
    /\ s[i + Len(REPLACEMENTS[3].lit)] \notin {"$", " ", NL}

\* the text with every secret value blanked out
RECURSIVE MaskFrom(_, _)
MaskFrom(s, i) ==
    IF i > Len(s) THEN <<>>
    ELSE IF SecretAt(s, i)
         THEN LET v == i + Len(REPLACEMENTS[3].lit)
              IN  REPLACEMENTS[3].lit \o <<"<secret>">>
                     \o MaskFrom(s, v + RunLen(s, v, {" ", NL}))
         ELSE <<s[i]>> \o MaskFrom(s, i + 1)

Masked(s) == MaskFrom(s, 1)

\* C5: commands that differ in their secret values alone collapse to the
\* first, and no raw text with a secret is in commands_seen
C5_SecretsCollapse ==
    /\ \A i, j \in 1..Len(records) :
          /\ i < j
          /\ records[i].text # <<>>
          /\ records[j].text # <<>>
          /\ Masked(records[i].text) = Masked(records[j].text)
          => /\ filter_command(records[i].text) = filter_command(records[j].text)
             /\ pc = "done" /\ ~should_exclude_cmd(filter_command(records[i].text)) =>
                   Cardinality({k \in 1..Len(emitted) :
                       emitted[k].text \in {filter_command(records[i].text),
                                            filter_command(records[j].text)}}) = 1
    /\ \A i \in 1..Len(records) :
          Masked(records[i].text) # records[i].text =>
              records[i].text \notin commands_seen

----------------------------------------------------------------------------
(* C6  Emission order: post_process writes a marker and the command text   *)
(* for every accepted command, timestamps ascending whatever their order   *)
(* in the input, and commands of one timestamp in first-seen order.        *)

\* the redacted texts add_command accepted
Accepted ==
    {c \in {RecText(records[i]) : i \in 1..Len(records)} :
        c # <<>> /\ ~should_exclude_cmd(c)}

\* number of bytes written before the k-th pair
RECURSIVE Offset(_)
Offset(k) ==
    IF k = 1 THEN 0
    ELSE Offset(k - 1) + Len(Marker(emitted[k - 1].ts, is_zsh)) + Len(emitted[k - 1].text)

\* C6: ascending timestamps, first-seen order within a timestamp, one marker
\* and the command text for every accepted command
C6_EmissionOrder ==
    pc = "done" =>
        /\ \A i, j \in 1..Len(emitted) :
              i < j =>
                 /\ ~TsLess(emitted[j].ts, emitted[i].ts)
                 /\ emitted[i].ts = emitted[j].ts =>
                       FirstOcc(emitted[i].text) < FirstOcc(emitted[j].text)
        /\ {emitted[k].text : k \in 1..Len(emitted)} = Accepted
        /\ Len(emitted) = Cardinality(Accepted)
        /\ \A k \in 1..Len(emitted) :
              /\ emitted[k].ts = records[FirstOcc(emitted[k].text)].ts
              /\ LitAt(output, Offset(k) + 1,
                       Marker(emitted[k].ts, is_zsh) \o emitted[k].text)
        /\ Len(output) = Offset(Len(emitted) + 1)

\* records at timestamps 200, 100, 100: the two of 100 are written first, in
\* the order they were seen (which is not their lexical order), then the 200
C6_Witness ==
    /\ pc = "done"
    /\ Len(emitted) = 3
    /\ \E a, b, c \in 1..Len(records) :
          /\ a < b /\ b < c
          /\ records[a].ts = <<"1", "0", "0", "0", "0", "2", "0", "0">>
          /\ records[b].ts = <<"1", "0", "0", "0", "0", "1", "0", "0">>
          /\ records[c].ts = <<"1", "0", "0", "0", "0", "1", "0", "0">>
          /\ records[b].text = <<"t", "o", "p", "\n">>
          /\ records[c].text = <<"s", "s", "h", " ", "h", "\n">>
          /\ emitted[1].text = records[b].text
          /\ emitted[2].text = records[c].text
          /\ emitted[3] = [ts |-> records[a].ts, text |-> records[a].text]

----------------------------------------------------------------------------
(* C7  min_length is an exclusion criterion: no command whose length is    *)
(* at most min_length is in the emitted output.                            *)

\* default of Args::min_length
min_length == 15

\* C7: every emitted command is longer than min_length
C7_MinLength ==
    pc = "done" => \A k \in 1..Len(emitted) : Len(emitted[k].text) > min_length

----------------------------------------------------------------------------
(* C8  Plain-format final flush: every marker with timestamp t followed by *)
(* a run of non-marker lines yields exactly one record (t, the lines of    *)
(* the run, each ended by a line feed), the last run of the file included. *)

IsMarker(i) == BASH_TIMESTAMP_REGEX(lines[i])

\* first lines of the runs of non-marker lines
RunStarts == {s \in 1..Len(lines) : ~IsMarker(s) /\ (s = 1 \/ IsMarker(s - 1))}

RunEnd(s) ==
    CHOOSE e \in s..Len(lines) :
        /\ \A k \in s..e : ~IsMarker(k)
        /\ e = Len(lines) \/ IsMarker(e + 1)

\* timestamp of the marker in front of the run (0 when there is none)
RunTs(s) == IF s = 1 THEN TsZero ELSE ParseU32(Tail(lines[s - 1]))

NthRun(n) == CHOOSE s \in RunStarts : Cardinality({t \in RunStarts : t <= s}) = n

NonEmpty(r) == r.text # <<>>

\* the (timestamp, text) pairs of the records with a text, in order
Yielded ==
    LET rs == SelectSeq(records, NonEmpty)
    IN  [n \in 1..Len(rs) |-> <<rs[n].ts, rs[n].text>>]

\* C8, the general statement: the records with a text are the runs of
\* non-marker lines, in file order, each under the timestamp of its marker
C8_RunsYieldRecords ==
    (Scanned /\ ~is_zsh) =>
        /\ Len(Yielded) = Cardinality(RunStarts)
        /\ \A n \in 1..Len(Yielded) :
              Yielded[n] = <<RunTs(NthRun(n)),
                             JoinLines(SubSeq(lines, NthRun(n), RunEnd(NthRun(n))))>>

\* C8 as claimed, with its examples `#100\ncmd1\n#200\ncmd2\n` and `#100\ncmd1\n`
C8_PlainFlushShortMarkers ==
    /\ C8_RunsYieldRecords
    /\ (Scanned /\ contents = <<"#", "1", "0", "0", "\n", "c", "m", "d", "1", "\n", "#", "2", "0", "0", "\n", "c", "m", "d", "2", "\n">>) =>
          Yielded = << <<<<"1", "0", "0">>, <<"c", "m", "d", "1", "\n">>>>,
                       <<<<"2", "0", "0">>, <<"c", "m", "d", "2", "\n">>>> >>
    /\ (Scanned /\ contents = <<"#", "1", "0", "0", "\n", "c", "m", "d", "1", "\n">>) =>
          Yielded = << <<<<"1", "0", "0">>, <<"c", "m", "d", "1", "\n">>>> >>

\* C8 as amended: the examples hold with markers of at least 8 digits,
\* `#00000100\ncmd1\n#00000200\ncmd2\n` and `#00000100\ncmd1\n`
C8_PlainFlush ==
    /\ C8_RunsYieldRecords
    /\ (Scanned /\ contents = <<"#", "0", "0", "0", "0", "0", "1", "0", "0", "\n", "c", "m", "d", "1", "\n", "#", "0", "0", "0", "0", "0", "2", "0", "0", "\n", "c", "m", "d", "2", "\n">>) =>
          Yielded = << <<<<"1", "0", "0">>, <<"c", "m", "d", "1", "\n">>>>,
                       <<<<"2", "0", "0">>, <<"c", "m", "d", "2", "\n">>>> >>
    /\ (Scanned /\ contents = <<"#", "0", "0", "0", "0", "0", "1", "0", "0", "\n", "c", "m", "d", "1", "\n">>) =>
          Yielded = << <<<<"1", "0", "0">>, <<"c", "m", "d", "1", "\n">>>> >>

\* the file `#00000100\ncmd1\n#00000200\ncmd2\n` has been processed
C8_Witness ==
    /\ pc = "done"
    /\ contents = <<"#", "0", "0", "0", "0", "0", "1", "0", "0", "\n", "c", "m", "d", "1", "\n", "#", "0", "0", "0", "0", "0", "2", "0", "0", "\n", "c", "m", "d", "2", "\n">>
    /\ Len(Yielded) = 2
    /\ Yielded[2] = <<<<"2", "0", "0">>, <<"c", "m", "d", "2", "\n">>>>

----------------------------------------------------------------------------
(* C9  Extended-format multi-line reconstruction: a command that ends with *)
(* a backslash takes the following raw lines, joined by line feeds, until  *)
(* it no longer ends with a backslash or the input is exhausted, and is    *)
(* one record with the matching line's timestamp; input that ends inside a *)
(* continuation gives the partial command and no failure.                  *)

\* the command assembled from the matching line f and the raw lines up to l
RECURSIVE Assemble(_, _)
Assemble(f, l) ==
    IF l = f THEN Trim(ZshCaptures(lines[f])[3])
    ELSE Assemble(f, l - 1) \o <<NL>> \o lines[l]

\* C9: every record of process_zsh_history is the matching line and the raw
\* lines its backslashes pull in, up to the first line that ends without one
\* or the end of the input
C9_Continuation ==
    is_zsh =>
        /\ \A n \in 1..Len(records) :
              LET r == records[n]
              IN  /\ ZSH_LINE_REGEX(lines[r.first])
                  /\ r.ts = ParseU32(ZshCaptures(lines[r.first])[1])
                  /\ r.last >= r.first
                  /\ r.text = Assemble(r.first, r.last) \o <<NL>>
                  /\ \A k \in r.first..(r.last - 1) : EndsWith(Assemble(r.first, k), "\\")
                  /\ ~EndsWith(Assemble(r.first, r.last), "\\") \/ r.last = Len(lines)
                  /\ \A k \in ((IF n = 1 THEN 0 ELSE records[n - 1].last) + 1)..(r.first - 1) :
                        ~ZSH_LINE_REGEX(lines[k])
        /\ \A k \in ((IF records = <<>> THEN 0 ELSE records[Len(records)].last) + 1)..(idx - 1) :
              ~ZSH_LINE_REGEX(lines[k])
        /\ pc = "failed" =>
              /\ ZSH_LINE_REGEX(lines[idx])
              /\ ParseU32(ZshCaptures(lines[idx])[1]) = ParseError

\* the input ended inside a continuation of two lines or more and the run
\* completed with the partial command as a record
C9_Witness ==
    /\ pc = "done"
    /\ is_zsh
    /\ \E n \in 1..Len(records) :
          /\ records[n].last = Len(lines)
          /\ records[n].last >= records[n].first + 1
          /\ EndsWith(Assemble(records[n].first, records[n].last), "\\")
          /\ \E k \in 1..Len(emitted) : emitted[k].text = records[n].text

----------------------------------------------------------------------------
(* C10  Flag reporting is side-effect-only: a command that matches a flag  *)
(* pattern, no exclusion pattern, and is no duplicate is in the output as  *)
(* any accepted command is; flag_command changes flagged_commands alone.   *)

FlagMatch(c) == \E p \in 1..Len(PATTERNS_TO_FLAG) : Contains(c, PATTERNS_TO_FLAG[p])

\* C10: a flagged, accepted command is written once under its first
\* timestamp and reported; flag_command leaves the other collections alone
C10_FlagSideEffectOnly ==
    /\ pc = "done" =>
          \A i \in 1..Len(records) :
              LET c == RecText(records[i])
              IN  (c # <<>> /\ FlagMatch(c) /\ ~should_exclude_cmd(c)) =>
                      /\ Cardinality({k \in 1..Len(emitted) : emitted[k].text = c}) = 1
                      /\ \E k \in 1..Len(emitted) :
                            emitted[k] = [ts |-> records[FirstOcc(c)].ts, text |-> c]
                      /\ \E f \in flagged_commands :
                            \E p \in 1..Len(PATTERNS_TO_FLAG) :
                               f = FlagText(PATTERNS_TO_FLAG[p], c)
    /\ \A c \in {RecText(records[i]) : i \in 1..Len(records)} :
          LET st == flag_command(c, Collections)
          IN  /\ st.command_map = command_map
              /\ st.commands_seen = commands_seen
              /\ st.big_commands = big_commands
              /\ flagged_commands \subseteq st.flagged_commands

\* a flagged command has been reported and written to the output
C10_Witness ==
    /\ pc = "done"
    /\ flagged_commands # {}
    /\ \E k \in 1..Len(emitted) : FlagMatch(emitted[k].text)

----------------------------------------------------------------------------
(* C11  Numeric parse failure is fatal and leaves no output: a timestamp   *)
(* line whose digits do not fit an unsigned 32-bit integer aborts the run, *)
(* and no output file is created in that run.                              *)

\* line k was taken by a backslash continuation of an earlier record
Consumed(k) == \E n \in 1..Len(records) : records[n].first < k /\ k <= records[n].last

\* line k has the syntax of a plain marker or of an extended-format line and
\* its timestamp digits do not fit a u32
PlainOverflow(k) ==
    BASH_TIMESTAMP_REGEX(lines[k]) /\ ParseU32(Tail(lines[k])) = ParseError

ExtendedOverflow(k) ==
    ZSH_LINE_REGEX(lines[k]) /\ ParseU32(ZshCaptures(lines[k])[1]) = ParseError

\* line k is one the scan of the detected format parses a timestamp from
TimestampLine(k) ==
    IF is_zsh THEN ZSH_LINE_REGEX(lines[k]) /\ ~Consumed(k)
    ELSE BASH_TIMESTAMP_REGEX(lines[k])

\* the scan has come to line k
Reached(k) == k < idx \/ (k = idx /\ pc = "failed")

\* C11 as claimed: any line with the syntax of either timestamp pattern and
\* digits that overflow aborts the run, and no output is written
C11_AnyOverflowLineAborts ==
    (\E k \in 1..Len(lines) : PlainOverflow(k) \/ ExtendedOverflow(k)) =>
        (~Scanned /\ output = NoFile)

\* C11 as amended: a line the scan of the detected format parses a timestamp
\* from (a plain marker in plain mode; in extended mode a matching line not
\* taken as a continuation) aborts the run at that line when its digits
\* overflow; an aborted run takes no further step and creates no output
C11_ParseFailureFatal ==
    /\ \A k \in 1..Len(lines) :
          (Reached(k) /\ TimestampLine(k)
             /\ (IF is_zsh THEN ExtendedOverflow(k) ELSE PlainOverflow(k))) =>
              (pc = "failed" /\ k = idx)
    /\ pc = "failed" =>
          /\ idx \in 1..Len(lines)
          /\ TimestampLine(idx)
          /\ IF is_zsh THEN ExtendedOverflow(idx) ELSE PlainOverflow(idx)
          /\ output = NoFile
          /\ emitted = <<>>
          /\ ~ENABLED Next
    /\ output # NoFile => pc = "done"

\* a run aborted on an overflowing timestamp after commands had been
\* accumulated, with no output file
C11_Witness ==
    /\ pc = "failed"
    /\ command_map # <<>>
    /\ output = NoFile

----------------------------------------------------------------------------
(* C12  Newline invariant: every command text stored in command_map, in    *)
(* both formats and after redaction, ends with exactly one line feed, so   *)
(* that post_process starts every marker at the beginning of a line.       *)

\* the texts stored in command_map
Stored == UNION {Range(command_map[k]) : k \in DOMAIN command_map}

\* t ends with a line feed and has no second one in front of it
OneFinalNewline(t) ==
    /\ EndsWith(t, NL)
    /\ Len(t) >= 2 => t[Len(t) - 1] # NL

\* C12: every stored text ends with exactly one line feed, and every text
\* written before another marker ends a line
C12_NewlineInvariant ==
    /\ \A t \in Stored : OneFinalNewline(t)
    /\ pc = "done" => \A k \in 1..Len(emitted) : EndsWith(emitted[k].text, NL)

----------------------------------------------------------------------------
(* C13  Lockstep invariant: in every reachable state of the scan a command *)
(* text is a value of command_map if and only if it is a member of         *)
(* commands_seen; excluded, duplicate and empty records change neither.    *)

\* C13: the values of command_map are the members of commands_seen; they are
\* the redacted texts of the non-empty, non-excluded records handed to
\* add_command so far, and handing any of those records to add_command
\* again, or an empty or excluded one, changes neither collection
C13_Lockstep ==
    /\ Stored = commands_seen
    /\ commands_seen =
          {RecText(records[i]) : i \in {j \in 1..Len(records) :
               /\ records[j].text # <<>>
               /\ ~should_exclude_cmd(RecText(records[j]))}}
    /\ \A i \in 1..Len(records) :
          LET st == add_command(records[i].ts, records[i].text, Collections)
          IN  /\ st.command_map = command_map
              /\ st.commands_seen = commands_seen

\* an accepted, a duplicate and an excluded record have been handed to
\* add_command
C13_Witness ==
    /\ commands_seen # {}
    /\ \E i, j \in 1..Len(records) :
          /\ i < j
          /\ RecText(records[i]) = RecText(records[j])
          /\ RecText(records[i]) \in commands_seen
    /\ \E i \in 1..Len(records) :
          /\ records[i].text # <<>>
          /\ should_exclude_cmd(RecText(records[i]))

----------------------------------------------------------------------------
(* C14  Plain-mode pre-marker content: non-marker lines in front of the    *)
(* very first timestamp marker are not dropped; they are retained and      *)
(* emitted under a timestamp.                                              *)

\* the file is in plain mode, starts with a non-marker line and has a marker
PreMarkerContent ==
    /\ ~is_zsh
    /\ Len(lines) >= 1
    /\ ~IsMarker(1)
    /\ \E m \in 1..Len(lines) : IsMarker(m)

FirstMarker == CHOOSE m \in 1..Len(lines) : IsMarker(m) /\ \A k \in 1..(m - 1) : ~IsMarker(k)

\* the lines in front of the first marker, as add_command stores them
PreMarkerText == filter_command(JoinLines(SubSeq(lines, 1, FirstMarker - 1)))

\* C14 as claimed: the lines in front of the first marker are emitted under
\* the timestamp of the first marker that follows them
C14_PreMarkerFirstTimestamp ==
    (pc = "done" /\ PreMarkerContent /\ ~should_exclude_cmd(PreMarkerText)) =>
        \E k \in 1..Len(emitted) :
            emitted[k] = [ts |-> ParseU32(Tail(lines[FirstMarker])), text |-> PreMarkerText]

\* C14 as amended: the lines in front of the first marker are the first
\* record, under the initial timestamp 0; unless an exclusion pattern matches
\* them they are the first command of the output, under timestamp 0, and are
\* written under no other timestamp
C14_PreMarkerContent ==
    /\ (Scanned /\ PreMarkerContent) =>
          /\ records[1].ts = TsZero
          /\ records[1].text = JoinLines(SubSeq(lines, 1, FirstMarker - 1))
          /\ Copies(PreMarkerText) =
                IF should_exclude_cmd(PreMarkerText) THEN {} ELSE {<<TsZero, 1>>}
    /\ (pc = "done" /\ PreMarkerContent /\ ~should_exclude_cmd(PreMarkerText)) =>
          /\ emitted[1] = [ts |-> TsZero, text |-> PreMarkerText]
          /\ \A k \in 2..Len(emitted) : emitted[k].text # PreMarkerText
          /\ LitAt(output, 1, <<"#", "0", NL>> \o PreMarkerText)

\* a file with lines in front of its first marker and a command after it has
\* been written
C14_Witness ==
    /\ pc = "done"
    /\ PreMarkerContent
    /\ Len(emitted) >= 2
    /\ emitted[1] = [ts |-> TsZero, text |-> PreMarkerText]
    /\ emitted[2].ts = ParseU32(Tail(lines[FirstMarker]))

----------------------------------------------------------------------------
(* C15  Extended-mode trimming: the text of every extended-mode record is  *)
(* the whole assembled command (first line and continuation lines) with    *)
(* leading and trailing whitespace removed, followed by one line feed.     *)

\* the command text of the matching line f and the raw lines up to l, joined
\* by line feeds, nothing trimmed
RECURSIVE RawAssemble(_, _)
RawAssemble(f, l) ==
    IF l = f THEN ZshCaptures(lines[f])[3]
    ELSE RawAssemble(f, l - 1) \o <<NL>> \o lines[l]

\* C15: every record of an extended-format file is its assembled command,
\* trimmed, and a line feed; no whitespace stands in front of the final line
\* feed
C15_TrimmedAssembled ==
    is_zsh =>
        \A n \in 1..Len(records) :
            LET r == records[n]
            IN  /\ r.text = Trim(RawAssemble(r.first, r.last)) \o <<NL>>
                /\ Len(r.text) >= 2 => r.text[Len(r.text) - 1] \notin Whitespace

----------------------------------------------------------------------------
(* C16  Format is decided once for the whole file: if any line matches the *)
(* extended-format pattern the file is processed in extended mode, and a   *)
(* line that neither matches nor is pulled in by a backslash continuation  *)
(* of the preceding match contributes nothing to any record.               *)

\* line k is pulled in by the backslashes of a matching line in front of it
\* that is not pulled in itself
RECURSIVE Pulled(_)
Pulled(k) ==
    \E f \in 1..(k - 1) :
        /\ ZSH_LINE_REGEX(lines[f])
        /\ ~Pulled(f)
        /\ \A j \in f..(k - 1) : EndsWith(Assemble(f, j), "\\")

\* line k is inside the span of raw lines of a record
InRecord(k) == \E n \in 1..Len(records) : records[n].first <= k /\ k <= records[n].last

\* C16: the format is extended exactly when some line of the file matches
\* the pattern, and is the mode of the whole scan; in extended mode the
\* lines that are part of a record are the matching lines and the lines
\* their backslashes pull in, every record is built from its own lines
\* alone, and the output holds nothing but the records
C16_FormatDecidedOnce ==
    /\ pc # "start" => (is_zsh <=> \E i \in 1..Len(lines) : ZSH_LINE_REGEX(lines[i]))
    /\ pc = "bash" => ~is_zsh
    /\ pc = "zsh" => is_zsh
    /\ is_zsh =>
          /\ timestamp = TsZero
          /\ command = <<>>
          /\ \A k \in 1..(idx - 1) :
                InRecord(k) <=> (ZSH_LINE_REGEX(lines[k]) \/ Pulled(k))
          /\ \A n \in 1..Len(records) :
                /\ ZSH_LINE_REGEX(lines[records[n].first])
                /\ records[n].text =
                      Assemble(records[n].first, records[n].last) \o <<NL>>
          /\ pc = "done" =>
                /\ \A k \in 1..Len(emitted) :
                      \E n \in 1..Len(records) :
                         emitted[k] = [ts |-> records[n].ts, text |-> RecText(records[n])]
                /\ output = WriteAll(emitted, TRUE)

\* a file whose first line is a plain marker, followed by a plain command
\* and by a line of the extended format, has been written in extended mode
C16_Witness ==
    /\ pc = "done"
    /\ is_zsh
    /\ Len(lines) >= 3
    /\ BASH_TIMESTAMP_REGEX(lines[1])
    /\ ~InRecord(1)
    /\ ~InRecord(2)
    /\ ~BASH_TIMESTAMP_REGEX(lines[2])
    /\ emitted # <<>>

----------------------------------------------------------------------------
(* C17  Empty records are dropped with no effect: in plain mode a marker   *)
(* that directly follows another marker, the start of the file, or is      *)
(* directly followed by the end of the file gives a record with empty      *)
(* text; add_command on an empty text leaves the four collections          *)
(* unchanged, so no marker without a command is written.                   *)

\* the collections after add_command has been called on the records rs, in
\* order, starting from st
RECURSIVE Replay(_, _)
Replay(rs, st) ==
    IF rs = <<>> THEN st
    ELSE Replay(Tail(rs), add_command(Head(rs).ts, Head(rs).text, st))

\* C17: in plain mode the records with an empty text are those of a marker
\* at the start of the file, of a marker directly after a marker, and of the
\* end of the file directly after a marker (or of an empty file); an empty
\* text changes none of the four collections, which are what the records
\* with a text alone produce; every marker written has a command
C17_EmptyRecordsNoEffect ==
    /\ ~is_zsh =>
          /\ \A n \in 1..Len(records) :
                records[n].text = <<>> <=> records[n].last = records[n].first
          /\ \A k \in 1..(idx - 1) :
                (IsMarker(k) /\ (k = 1 \/ IsMarker(k - 1))) =>
                    \E n \in 1..Len(records) :
                        records[n].last = k - 1 /\ records[n].text = <<>>
          /\ (Scanned /\ (lines = <<>> \/ IsMarker(Len(lines)))) =>
                records[Len(records)].text = <<>>
    /\ \A ts \in {timestamp, TsZero} \cup {records[n].ts : n \in 1..Len(records)} :
          add_command(ts, <<>>, Collections) = Collections
    /\ Collections = Replay(SelectSeq(records, NonEmpty), NoCollections)
    /\ <<>> \notin Stored
    /\ <<>> \notin commands_seen
    /\ pc = "done" => \A k \in 1..Len(emitted) : emitted[k].text # <<>>

\* a plain file that starts with two markers and ends with a marker has been
\* written: three records were empty and the command between is in the output
C17_Witness ==
    /\ pc = "done"
    /\ ~is_zsh
    /\ Len(lines) >= 4
    /\ IsMarker(1)
    /\ IsMarker(2)
    /\ IsMarker(Len(lines))
    /\ Cardinality({n \in 1..Len(records) : records[n].text = <<>>}) = 3
    /\ Len(emitted) = 1

----------------------------------------------------------------------------
(* C18  In extended mode a raw line consumed as a backslash continuation   *)
(* of the preceding matching line is never processed as a record of its    *)
(* own, even when it matches the extended-format pattern: its timestamp is *)
(* not parsed and it is in the output as part of the preceding command     *)
(* alone.                                                                  *)

\* C18: the spans of raw lines of the records follow one another without a
\* common line; a consumed line opens no record, stands verbatim in the text
\* of the record that consumed it, and is never the line a run aborts at;
\* the records are as many as the matching lines that were not consumed, and
\* the output holds nothing but the records
C18_ContinuationNotRecord ==
    is_zsh =>
        /\ \A n \in 1..(Len(records) - 1) : records[n].last < records[n + 1].first
        /\ \A n \in 1..Len(records) :
              /\ records[n].first <= records[n].last
              /\ records[n].ts = ParseU32(ZshCaptures(lines[records[n].first])[1])
              /\ records[n].ts # ParseError
              /\ \A k \in (records[n].first + 1)..records[n].last :
                    Contains(records[n].text, <<NL>> \o lines[k] \o <<NL>>)
        /\ \A k \in 1..(idx - 1) :
              /\ Consumed(k) <=> Pulled(k)
              /\ Consumed(k) => \A n \in 1..Len(records) : records[n].first # k
        /\ pc = "failed" => ~Pulled(idx)
        /\ Scanned =>
              Len(records) =
                 Cardinality({k \in 1..Len(lines) : ZSH_LINE_REGEX(lines[k]) /\ ~Consumed(k)})
        /\ pc = "done" =>
              \A k \in 1..Len(emitted) :
                  \E n \in 1..Len(records) :
                     emitted[k] = [ts |-> records[n].ts, text |-> RecText(records[n])]

\* a line of the extended format whose digits overflow was consumed as a
\* continuation; the run completed and wrote it inside the preceding command
C18_Witness ==
    /\ pc = "done"
    /\ is_zsh
    /\ \E k \in 1..Len(lines) :
          /\ Consumed(k)
          /\ ExtendedOverflow(k)
          /\ \E e \in 1..Len(emitted) :
                Contains(emitted[e].text, <<NL>> \o lines[k] \o <<NL>>)

=============================================================================
